---- MODULE Spec2Model ----
(***************************************************************************)
(* Model of the benchmark execution engine of src/src/execution.ts:        *)
(* runSuite / _runSuite / runClientBenchmark / runSingleBenchmarkPass.     *)
(*                                                                         *)
(* The engine is one chain of async functions on a single thread.  A step  *)
(* of the model is one synchronous segment of that chain, cut at every     *)
(* await and after every call of the reporter (the reporter is caller's    *)
(* code and may call cancel() on the handle once runSuite has returned).   *)
(***************************************************************************)
EXTENDS Integers, Sequences, FiniteSets, TLC

(* ------------------------------ bounds --------------------------------- *)
NumBenchmarks == 2        \* length of benchmarkClasses
NumClients == 2           \* length of clientClasses
MaxVerifyPasses == 2      \* config.verifyPasses ranges over 0..MaxVerifyPasses
MaxWarmups == 1           \* config.warmups ranges over 0..MaxWarmups
MaxMinSamples == 2        \* config.minSamples ranges over 1..MaxMinSamples
MaxMaxDurationMs == 2     \* config.maxDurationMs ranges over 1..MaxMaxDurationMs
MaxDuration == 2          \* a measured run() lasts 1..MaxDuration time units
MaxYieldDelay == 1        \* time spent outside run() in one pass: 0..MaxYieldDelay

Benchmarks == 1..NumBenchmarks
Clients == 1..NumClients
Durations == 1..MaxDuration
\* config.targetRelativeMarginOfError, in percent; 15 is customConfig's
Targets == {15, 50}

(* ------------------------------ values --------------------------------- *)
Phases == {"VERIFY", "WARMUP", "ITERATION"}
NoFailure == [error |-> "none", phase |-> "none"]      \* context.failure === undefined
NothingFailed == [kind |-> "none", error |-> "none", phase |-> "none"]
Undefined == [ok |-> FALSE, duration |-> 0]            \* the pass returned undefined
NoStats == 0 - 1                                       \* the event has no stats field
NoEvent == [subject |-> "none", type |-> "none", benchmark |-> 0, client |-> 0,
            phase |-> "none", canceled |-> FALSE, failure |-> NoFailure,
            iterations |-> NoStats]

Configurations ==
    [verifyPasses : 0..MaxVerifyPasses,
     warmups : 0..MaxWarmups,
     minSamples : 1..MaxMinSamples,
     maxDurationMs : 1..MaxMaxDurationMs,
     targetRelativeMarginOfError : Targets]

VARIABLES
    config,               \* context.config
    pc,                   \* where the async chain is suspended / what runs next
    handle,               \* "unreturned": runSuite still in its first synchronous run;
                          \* "fresh": runSuite has returned, nothing has resumed yet;
                          \* "resumed": some continuation has run since
    canceled,             \* context.canceled
    eventCommonCanceled,  \* context.eventCommon.canceled
    failure,              \* context.failure
    bi,                   \* position of the benchmark loop of _runSuite
    ci,                   \* position of the client loop of _runSuite
    cbCanceled,           \* canceled of runClientBenchmark's local eventCommon copy
    i,                    \* loop counter of the verify / warmup loop
    passPhase,            \* phase argument of the running runSingleBenchmarkPass
    verify,               \* verify option of the running runSingleBenchmarkPass
    duration,             \* local duration of the running pass (0: not measured yet)
    result,               \* what the last pass returned: Undefined or its duration
    calls,                \* history: lifecycle steps the last pass has invoked, in order
    stats,                \* the pairing's Stats: durations pushed so far
    elapsed,              \* performanceNow() - runStart, saturated above maxDurationMs
    promise,              \* state of the promise runSuite returned
    lastEvent,            \* the event the reporter received last
    open,                 \* history: START events whose END was not emitted yet
    counts,               \* history: phase events of the current pairing, per phase/type
    cbStarted,            \* history: pairings whose CLIENT_BENCHMARK/START was emitted
    pairingFailure,       \* history: what failed first in the current pairing
    prevFailed,           \* history: the previous pairing ended with a failure
    cancelEarly,          \* history: cancel() was called while handle = "fresh"
    passes,               \* history: passes started in the current pairing, per phase
    gc,                   \* global.gc is defined (node runs with --expose-gc)
    findings,             \* parsed content of ./findings.json: records per client name
    io,                   \* saveData's readFile / writeFile calls that have not completed
    saved                 \* history: the records saveData was called with, per client

ctx == <<config, canceled, eventCommonCanceled, failure>>
loops == <<bi, ci, cbCanceled, i>>
pass == <<passPhase, verify, duration, result, calls>>
sampling == <<stats, elapsed>>
stream == <<lastEvent, open, counts, cbStarted>>
history == <<pairingFailure, prevFailed, cancelEarly, passes>>
store == <<gc, findings, io, saved>>
vars == <<ctx, loops, pass, sampling, stream, history, pc, handle, promise, store>>

(* ------------------------------ events --------------------------------- *)
SuiteEvent(type) ==
    [NoEvent EXCEPT !.subject = "SUITE", !.type = type,
                    !.canceled = eventCommonCanceled]

BenchmarkEvent(type) ==
    [NoEvent EXCEPT !.subject = "BENCHMARK", !.type = type, !.benchmark = bi,
                    !.canceled = eventCommonCanceled]

\* the copy of context.eventCommon runClientBenchmark makes when it is entered
EventCommonCopy == eventCommonCanceled

ClientBenchmarkEvent(type, flag, fail, n) ==
    [NoEvent EXCEPT !.subject = "CLIENT_BENCHMARK", !.type = type, !.benchmark = bi,
                    !.client = ci, !.canceled = flag, !.failure = fail,
                    !.iterations = n]

PhaseEvent(phase, type, fail, n) ==
    [NoEvent EXCEPT !.subject = "CLIENT_BENCHMARK_PHASE", !.type = type,
                    !.benchmark = bi, !.client = ci, !.phase = phase,
                    !.canceled = cbCanceled, !.failure = fail, !.iterations = n]

\* the subject instance an event is about
SubjectOf(e) == <<e.subject, e.benchmark, e.client, e.phase>>

ZeroCounts == [p \in Phases |-> [START |-> 0, END |-> 0]]
NoPasses == [p \in Phases |-> 0]
NoRecords == [c \in Clients |-> <<>>]                  \* an empty findings.json

\* reporter(e): the reporter receives e; the history of the stream is updated
Emit(e) ==
    /\ lastEvent' = e
    /\ open' = IF e.type = "START" THEN Append(open, e)
               ELSE SelectSeq(open, LAMBDA s : SubjectOf(s) # SubjectOf(e))
    /\ counts' = IF e.subject = "CLIENT_BENCHMARK" /\ e.type = "START" THEN ZeroCounts
                 ELSE IF e.subject = "CLIENT_BENCHMARK_PHASE"
                      THEN [counts EXCEPT ![e.phase][e.type] = @ + 1]
                      ELSE counts
    /\ cbStarted' = IF e.subject = "CLIENT_BENCHMARK" /\ e.type = "START"
                    THEN cbStarted \cup {<<e.benchmark, e.client>>}
                    ELSE cbStarted

\* A segment of the chain has run.  runSuite returns to its caller when its first
\* synchronous run reaches an await (or the end of _runSuite); from then on every
\* segment is a continuation run from the event loop.
Ran(suspends) ==
    handle' = IF handle = "unreturned"
              THEN (IF suspends THEN "fresh" ELSE "unreturned")
              ELSE "resumed"

(* ------------------------------ statistics ----------------------------- *)
RECURSIVE Sum(_)
Sum(s) == IF s = <<>> THEN 0 ELSE Head(s) + Sum(Tail(s))

RECURSIVE SumOfSquares(_)
SumOfSquares(s) == IF s = <<>> THEN 0 ELSE Head(s) * Head(s) + SumOfSquares(Tail(s))

\* percentRelativeMarginOfError(stats) <= target, with moe = 1.96 * stddev / sqrt(n),
\* stddev = sqrt(n * sum_of_squares - sum^2) / n and amean = sum / n; both sides
\* squared and cleared of denominators.  With no positive sum the ratio is NaN and
\* the comparison is false.
MarginOfErrorWithin(s, target) ==
    LET n == Len(s)
        sum == Sum(s)
    IN  /\ sum > 0
        /\ 196 * 196 * (n * SumOfSquares(s) - sum * sum) <= target * target * sum * sum * n

\* variant: the sample size is not looked at
isFinalIterationAnySize(cfg, sinceRunStart, s) ==
    IF sinceRunStart > cfg.maxDurationMs THEN TRUE
    ELSE IF MarginOfErrorWithin(s, cfg.targetRelativeMarginOfError) THEN TRUE
    ELSE FALSE

\* variant: the elapsed time is not looked at
isFinalIterationNoCap(cfg, sinceRunStart, s) ==
    IF Len(s) < cfg.minSamples THEN FALSE
    ELSE IF MarginOfErrorWithin(s, cfg.targetRelativeMarginOfError) THEN TRUE
    ELSE FALSE

\* variant: the margin of error is looked at before the elapsed time, and ends the
\* decision
isFinalIterationMarginFirst(cfg, sinceRunStart, s) ==
    IF Len(s) < cfg.minSamples THEN FALSE
    ELSE IF ~MarginOfErrorWithin(s, cfg.targetRelativeMarginOfError) THEN FALSE
    ELSE TRUE

\* twice stats.percentile(25) and twice stats.percentile(75) of the samples s: the
\* mean of the sorted values at the floor and at the ceiling of (n - 1) * p
TwiceQuartile(s, k) ==
    LET v == SortSeq(s, LAMBDA a, b : a < b)
        at == k * (Len(s) - 1)
    IN  v[(at \div 4) + 1] + v[((at + 3) \div 4) + 1]

\* variant: the band of stats.iqr() includes its two limits
iqrClosed(s) ==
    IF s = <<>> THEN <<>>
    ELSE LET q1 == TwiceQuartile(s, 1)
             q3 == TwiceQuartile(s, 3)
         IN  SelectSeq(s, LAMBDA x : /\ 4 * x >= 2 * q1 - 3 * (q3 - q1)
                                     /\ 4 * x <= 2 * q3 + 3 * (q3 - q1))

\* stats.iqr(): the samples strictly between q1 - 1.5 * (q3 - q1) and
\* q3 + 1.5 * (q3 - q1), the comparisons multiplied by 4
iqr(s) ==
    IF s = <<>> THEN <<>>
    ELSE LET q1 == TwiceQuartile(s, 1)
             q3 == TwiceQuartile(s, 3)
         IN  SelectSeq(s, LAMBDA x : /\ 4 * x > 2 * q1 - 3 * (q3 - q1)
                                     /\ 4 * x < 2 * q3 + 3 * (q3 - q1))

isFinalIteration(cfg, sinceRunStart, s) ==
    IF Len(s) < cfg.minSamples THEN FALSE
    ELSE IF sinceRunStart > cfg.maxDurationMs THEN TRUE
    ELSE IF MarginOfErrorWithin(s, cfg.targetRelativeMarginOfError) THEN TRUE
    ELSE FALSE

\* time passes: performanceNow() - runStart grows by d (kept up to maxDurationMs + 1,
\* beyond which the only comparison made on it has the same outcome)
Later(t, d) == IF t + d > config.maxDurationMs THEN config.maxDurationMs + 1 ELSE t + d

(* ------------------------------ runSuite ------------------------------- *)
Init ==
    /\ config \in Configurations
    /\ pc = "suite_start"
    /\ handle = "unreturned"
    /\ canceled = FALSE
    /\ eventCommonCanceled = FALSE
    /\ failure = NoFailure
    /\ bi = 1
    /\ ci = 1
    /\ cbCanceled = FALSE
    /\ i = 0
    /\ passPhase = "none"
    /\ verify = FALSE
    /\ duration = 0
    /\ result = Undefined
    /\ calls = <<>>
    /\ stats = <<>>
    /\ elapsed = 0
    /\ promise = "pending"
    /\ lastEvent = NoEvent
    /\ open = <<>>
    /\ counts = ZeroCounts
    /\ cbStarted = {}
    /\ pairingFailure = NothingFailed
    /\ prevFailed = FALSE
    /\ cancelEarly = FALSE
    /\ passes = NoPasses
    /\ gc = FALSE
    /\ findings = NoRecords
    /\ io = {}
    /\ saved = NoRecords

\* promise.cancel(): callable by the caller once runSuite has returned the promise,
\* any number of times
Cancel ==
    /\ handle # "unreturned"
    /\ promise = "pending"
    /\ canceled' = TRUE
    /\ eventCommonCanceled' = TRUE
    /\ cancelEarly' = IF canceled THEN cancelEarly ELSE (handle = "fresh")
    /\ UNCHANGED <<config, failure, loops, pass, sampling, stream, pairingFailure,
                   prevFailed, passes, pc, handle, promise>>
    /\ UNCHANGED store

\* innerPromise.then(() => context.canceled): the returned promise settles
Settle ==
    /\ pc = "suite_done"
    /\ promise = "pending"
    /\ promise' = IF canceled THEN "resolved_canceled" ELSE "resolved"
    /\ pc' = "done"
    /\ Ran(FALSE)
    /\ UNCHANGED <<ctx, loops, pass, sampling, stream, history>>
    /\ UNCHANGED store

(* ------------------------------ _runSuite ------------------------------ *)
SuiteStart ==
    /\ pc = "suite_start"
    /\ Emit(SuiteEvent("START"))
    /\ pc' = "bench_loop"
    /\ Ran(FALSE)
    /\ UNCHANGED <<ctx, loops, pass, sampling, history, promise>>
    /\ UNCHANGED store

\* for (const BenchmarkClass of benchmarkClasses) { if (context.canceled) break;
MoreBenchmarks == bi <= NumBenchmarks /\ ~canceled

\* head of the loop over benchmarkClasses; past the loop, SUITE/END
BenchLoop ==
    /\ pc = "bench_loop"
    /\ IF MoreBenchmarks
       THEN /\ Emit(BenchmarkEvent("START"))
            /\ ci' = 1
            /\ pc' = "client_loop"
            /\ Ran(FALSE)
       ELSE /\ Emit(SuiteEvent("END"))
            /\ ci' = ci
            /\ pc' = "suite_done"
            /\ Ran(TRUE)
    /\ UNCHANGED <<ctx, bi, cbCanceled, i, pass, sampling, history, promise>>
    /\ UNCHANGED store

\* variant: the client loop does not look at context.canceled
MoreClientsIgnoringCancel == ci <= NumClients

\* variant: the client loop stops one client short
MoreClientsButLast == ci < NumClients /\ ~canceled

\* for (const ClientClass of clientClasses) { if (context.canceled) break;
MoreClients == ci <= NumClients /\ ~canceled

\* head of the loop over clientClasses: enter runClientBenchmark up to its first
\* reporter call; past the loop, BENCHMARK/END and the next benchmark
ClientLoop ==
    /\ pc = "client_loop"
    /\ IF MoreClients
       THEN /\ cbCanceled' = EventCommonCopy
            /\ Emit(ClientBenchmarkEvent("START", EventCommonCopy, NoFailure, NoStats))
            /\ pairingFailure' = NothingFailed
            /\ passes' = NoPasses
            /\ bi' = bi
            /\ pc' = "cb_started"
       ELSE /\ Emit(BenchmarkEvent("END"))
            /\ bi' = bi + 1
            /\ pc' = "bench_loop"
            /\ UNCHANGED <<cbCanceled, pairingFailure, passes>>
    /\ Ran(FALSE)
    /\ UNCHANGED <<ctx, ci, i, pass, sampling, prevFailed, cancelEarly, promise>>
    /\ UNCHANGED store

(* --------------------------- runSingleBenchmarkPass -------------------- *)
\* catch (error): context.failure = { error, phase }; return undefined
Caught(step, phase) ==
    /\ failure' = [error |-> step, phase |-> phase]
    /\ pairingFailure' = IF pairingFailure = NothingFailed
                         THEN [kind |-> "pass", error |-> step, phase |-> phase]
                         ELSE pairingFailure
    /\ result' = Undefined
    /\ pc' = "pass_return"

\* runSingleBenchmarkPass is called: the benchmark is constructed and setup() is
\* called; a throw of the constructors is caught like any later failure
StartPass(phase, v) ==
    /\ passPhase' = phase
    /\ verify' = v
    /\ duration' = 0
    /\ passes' = [passes EXCEPT ![phase] = @ + 1]
    /\ \E thrown \in BOOLEAN :
          IF thrown
          THEN /\ Caught("construct", phase)
               /\ calls' = <<>>
          ELSE /\ pc' = "await_setup"
               /\ result' = Undefined
               /\ calls' = <<"setup">>
               /\ UNCHANGED <<failure, pairingFailure>>

\* await benchmark.setup() settles; then run() is called
SetupSettles ==
    /\ pc = "await_setup"
    /\ \E rejected \in BOOLEAN :
          IF rejected
          THEN /\ Caught("setup", passPhase)
               /\ calls' = calls
          ELSE /\ pc' = "await_run"
               /\ calls' = Append(calls, "run")
               /\ UNCHANGED <<failure, pairingFailure, result>>
    /\ Ran(TRUE)
    /\ UNCHANGED <<config, canceled, eventCommonCanceled, loops, passPhase, verify,
                   duration, sampling, stream, prevFailed, cancelEarly, passes,
                   promise>>
    /\ UNCHANGED store

\* variant: verify() is never called
StepAfterRunSkipsVerify(v) == "teardown"

\* if (options.verify) await benchmark.verify(); await benchmark.teardown()
StepAfterRun(v) == IF v THEN "verify" ELSE "teardown"

\* await benchmark.run() settles after d time units; then verify() or teardown()
RunSettles ==
    /\ pc = "await_run"
    /\ \E rejected \in BOOLEAN, d \in Durations :
          /\ elapsed' = IF passPhase = "ITERATION" THEN Later(elapsed, d) ELSE elapsed
          /\ IF rejected
             THEN /\ Caught("run", passPhase)
                  /\ duration' = duration
                  /\ calls' = calls
             ELSE /\ duration' = d
                  /\ pc' = "await_" \o StepAfterRun(verify)
                  /\ calls' = Append(calls, StepAfterRun(verify))
                  /\ UNCHANGED <<failure, pairingFailure, result>>
    /\ Ran(TRUE)
    /\ UNCHANGED <<config, canceled, eventCommonCanceled, loops, passPhase, verify,
                   stats, stream, prevFailed, cancelEarly, passes, promise>>
    /\ UNCHANGED store

\* await benchmark.verify() settles; then teardown() is called
VerifySettles ==
    /\ pc = "await_verify"
    /\ \E rejected \in BOOLEAN :
          IF rejected
          THEN /\ Caught("verify", passPhase)
               /\ calls' = calls
          ELSE /\ pc' = "await_teardown"
               /\ calls' = Append(calls, "teardown")
               /\ UNCHANGED <<failure, pairingFailure, result>>
    /\ Ran(TRUE)
    /\ UNCHANGED <<config, canceled, eventCommonCanceled, loops, passPhase, verify,
                   duration, sampling, stream, prevFailed, cancelEarly, passes,
                   promise>>
    /\ UNCHANGED store

\* await benchmark.teardown() settles; then the zero-delay timer is set
TeardownSettles ==
    /\ pc = "await_teardown"
    /\ \E rejected \in BOOLEAN :
          IF rejected THEN Caught("teardown", passPhase)
          ELSE /\ pc' = "await_yield"
               /\ UNCHANGED <<failure, pairingFailure, result>>
    /\ calls' = calls
    /\ Ran(TRUE)
    /\ UNCHANGED <<config, canceled, eventCommonCanceled, loops, passPhase, verify,
                   duration, sampling, stream, prevFailed, cancelEarly, passes,
                   promise>>
    /\ UNCHANGED store

\* the zero-delay timer fires: return { duration, memoryUsage }
YieldSettles ==
    /\ pc = "await_yield"
    /\ \E delay \in 0..MaxYieldDelay :
          elapsed' = IF passPhase = "ITERATION" THEN Later(elapsed, delay) ELSE elapsed
    /\ result' = [ok |-> TRUE, duration |-> duration]
    /\ pc' = "pass_return"
    /\ Ran(TRUE)
    /\ UNCHANGED <<ctx, loops, passPhase, verify, duration, calls, stats, stream,
                   history, promise>>
    /\ UNCHANGED store

(* ----------------------------- runClientBenchmark ---------------------- *)
\* after CLIENT_BENCHMARK/START: memory baseline, new ClientClass(), VERIFY START
CbStarted ==
    /\ pc = "cb_started"
    /\ Emit(PhaseEvent("VERIFY", "START", NoFailure, NoStats))
    /\ pc' = "transform"
    /\ Ran(FALSE)
    /\ UNCHANGED <<ctx, loops, pass, sampling, history, promise>>
    /\ UNCHANGED store

\* variant: the catch block does not record the failure in the context
TransformSwallowsError ==
    /\ pc = "transform"
    /\ \E thrown \in BOOLEAN :
          IF thrown
          THEN /\ failure' = failure
               /\ pairingFailure' = [kind |-> "transform", error |-> "transform",
                                      phase |-> "VERIFY"]
          ELSE UNCHANGED <<failure, pairingFailure>>
    /\ i' = 0
    /\ pc' = "verify_loop"
    /\ Ran(FALSE)
    /\ UNCHANGED <<config, canceled, eventCommonCanceled, bi, ci, cbCanceled, pass,
                   sampling, stream, prevFailed, cancelEarly, passes, promise>>
    /\ UNCHANGED store

\* client.transformRawExample of the example and its partials, inside try/catch
Transform ==
    /\ pc = "transform"
    /\ \E thrown \in BOOLEAN :
          IF thrown
          THEN /\ failure' = [error |-> "transform", phase |-> "VERIFY"]
               /\ pairingFailure' = [kind |-> "transform", error |-> "transform",
                                      phase |-> "VERIFY"]
          ELSE UNCHANGED <<failure, pairingFailure>>
    /\ i' = 0
    /\ pc' = "verify_loop"
    /\ Ran(FALSE)
    /\ UNCHANGED <<config, canceled, eventCommonCanceled, bi, ci, cbCanceled, pass,
                   sampling, stream, prevFailed, cancelEarly, passes, promise>>
    /\ UNCHANGED store

\* variant: the verify loop breaks on cancellation only
MoreVerifyPassesAfterFailure == i < config.verifyPasses /\ ~canceled

\* for (let i = 0; i < config.verifyPasses; i++) { if (canceled || failure) break;
MoreVerifyPasses == i < config.verifyPasses /\ ~(canceled \/ failure # NoFailure)

\* head of the verify loop: start the next verify pass, or VERIFY END and the pause
VerifyLoop ==
    /\ pc = "verify_loop"
    /\ IF MoreVerifyPasses
       THEN /\ StartPass("VERIFY", TRUE)
            /\ UNCHANGED stream
       ELSE /\ Emit(PhaseEvent("VERIFY", "END", failure, NoStats))
            /\ pc' = "pause1"
            /\ UNCHANGED <<failure, pairingFailure, pass, passes>>
    /\ Ran(TRUE)
    /\ UNCHANGED <<config, canceled, eventCommonCanceled, loops, sampling, prevFailed,
                   cancelEarly, promise>>
    /\ UNCHANGED store

\* a verify pass has returned: i++
AfterVerifyPass ==
    /\ pc = "pass_return"
    /\ passPhase = "VERIFY"
    /\ i' = i + 1
    /\ pc' = "verify_loop"
    /\ Ran(FALSE)
    /\ UNCHANGED <<ctx, bi, ci, cbCanceled, pass, sampling, stream, history, promise>>
    /\ UNCHANGED store

\* variant: WARMUP and ITERATION are skipped on cancellation only
PhaseRunsAfterFailure == ~canceled

\* if (!context.canceled && !context.failure), before WARMUP and before ITERATION
PhaseRuns == ~canceled /\ failure = NoFailure

\* variant: WARMUP END is emitted outside the if, also when WARMUP was skipped
Pause1AlwaysEndsWarmup ==
    /\ pc = "pause1"
    /\ IF PhaseRuns
       THEN /\ Emit(PhaseEvent("WARMUP", "START", NoFailure, NoStats))
            /\ i' = 0
            /\ pc' = "warmup_loop"
       ELSE /\ Emit(PhaseEvent("WARMUP", "END", failure, NoStats))
            /\ pc' = "pause2"
            /\ UNCHANGED i
    /\ Ran(TRUE)
    /\ UNCHANGED <<ctx, bi, ci, cbCanceled, pass, sampling, history, promise>>
    /\ UNCHANGED store

\* the pause after VERIFY is over: WARMUP START unless canceled or failed
Pause1 ==
    /\ pc = "pause1"
    /\ IF PhaseRuns
       THEN /\ Emit(PhaseEvent("WARMUP", "START", NoFailure, NoStats))
            /\ i' = 0
            /\ pc' = "warmup_loop"
       ELSE /\ pc' = "pause2"
            /\ UNCHANGED <<i, stream>>
    /\ Ran(TRUE)
    /\ UNCHANGED <<ctx, bi, ci, cbCanceled, pass, sampling, history, promise>>
    /\ UNCHANGED store

\* variant: the warmup loop runs one pass more
MoreWarmupsOneMore == i <= config.warmups /\ ~(canceled \/ failure # NoFailure)

\* for (let i = 0; i < config.warmups; i++) { if (canceled || failure) break;
MoreWarmups == i < config.warmups /\ ~(canceled \/ failure # NoFailure)

\* head of the warmup loop: start the next warmup pass, or WARMUP END and the pause
WarmupLoop ==
    /\ pc = "warmup_loop"
    /\ IF MoreWarmups
       THEN /\ StartPass("WARMUP", FALSE)
            /\ UNCHANGED stream
       ELSE /\ Emit(PhaseEvent("WARMUP", "END", failure, NoStats))
            /\ pc' = "pause2"
            /\ UNCHANGED <<failure, pairingFailure, pass, passes>>
    /\ Ran(TRUE)
    /\ UNCHANGED <<config, canceled, eventCommonCanceled, loops, sampling, prevFailed,
                   cancelEarly, promise>>
    /\ UNCHANGED store

\* a warmup pass has returned: i++
AfterWarmupPass ==
    /\ pc = "pass_return"
    /\ passPhase = "WARMUP"
    /\ i' = i + 1
    /\ pc' = "warmup_loop"
    /\ Ran(FALSE)
    /\ UNCHANGED <<ctx, bi, ci, cbCanceled, pass, sampling, stream, history, promise>>
    /\ UNCHANGED store

\* the pause after WARMUP is over: new Stats(), runStart = now, and the first
\* ITERATION START unless canceled or failed
Pause2 ==
    /\ pc = "pause2"
    /\ stats' = <<>>
    /\ elapsed' = 0
    /\ IF PhaseRuns
       THEN /\ Emit(PhaseEvent("ITERATION", "START", NoFailure, NoStats))
            /\ pc' = "iter_pass"
       ELSE /\ pc' = "pause3"
            /\ UNCHANGED stream
    /\ Ran(TRUE)
    /\ UNCHANGED <<ctx, loops, pass, history, promise>>
    /\ UNCHANGED store

\* after ITERATION START: the pass is started
IterPass ==
    /\ pc = "iter_pass"
    /\ StartPass("ITERATION", FALSE)
    /\ Ran(TRUE)
    /\ UNCHANGED <<config, canceled, eventCommonCanceled, loops, sampling, stream,
                   prevFailed, cancelEarly, promise>>
    /\ UNCHANGED store

\* const { duration, memoryUsage } = <what the pass returned>: destructuring
\* undefined throws a TypeError that nothing catches, so runClientBenchmark,
\* _runSuite and the promise runSuite returned are rejected
Destructure(r) == r.ok

\* variant: the live Stats is replaced by its trimmed copy after every push
AfterIterationPassTrimming ==
    /\ pc = "pass_return"
    /\ passPhase = "ITERATION"
    /\ IF Destructure(result)
       THEN /\ stats' = iqr(Append(stats, result.duration))
            /\ Emit(PhaseEvent("ITERATION", "END", failure,
                               Len(iqr(Append(stats, result.duration)))))
            /\ pc' = "iter_check"
            /\ UNCHANGED promise
       ELSE /\ promise' = "rejected"
            /\ pc' = "done"
            /\ UNCHANGED <<stats, stream>>
    /\ Ran(FALSE)
    /\ UNCHANGED <<ctx, loops, pass, elapsed, history>>
    /\ UNCHANGED store

\* an iteration pass has returned: push the sample, ITERATION END
AfterIterationPass ==
    /\ pc = "pass_return"
    /\ passPhase = "ITERATION"
    /\ IF Destructure(result)
       THEN /\ stats' = Append(stats, result.duration)
            /\ Emit(PhaseEvent("ITERATION", "END", failure, Len(stats) + 1))
            /\ pc' = "iter_check"
            /\ UNCHANGED promise
       ELSE /\ promise' = "rejected"
            /\ pc' = "done"
            /\ UNCHANGED <<stats, stream>>
    /\ Ran(FALSE)
    /\ UNCHANGED <<ctx, loops, pass, elapsed, history>>
    /\ UNCHANGED store

\* while (true) { if (context.canceled || context.failure) break;
IterationBreaks == canceled \/ failure # NoFailure

\* variant: ITERATION START is emitted before the loop decides to stop
IterCheckStartFirst ==
    /\ pc = "iter_check"
    /\ Emit(PhaseEvent("ITERATION", "START", NoFailure, NoStats))
    /\ pc' = IF isFinalIteration(config, elapsed, stats) \/ IterationBreaks
             THEN "pause3" ELSE "iter_pass"
    /\ Ran(TRUE)
    /\ UNCHANGED <<ctx, loops, pass, sampling, history, promise>>
    /\ UNCHANGED store

\* after ITERATION END: isFinalIteration, then the head of the while loop
IterCheck ==
    /\ pc = "iter_check"
    /\ IF isFinalIteration(config, elapsed, stats) \/ IterationBreaks
       THEN /\ pc' = "pause3"
            /\ UNCHANGED stream
       ELSE /\ Emit(PhaseEvent("ITERATION", "START", NoFailure, NoStats))
            /\ pc' = "iter_pass"
    /\ Ran(TRUE)
    /\ UNCHANGED <<ctx, loops, pass, sampling, history, promise>>
    /\ UNCHANGED store

\* the last pause is over: CLIENT_BENCHMARK/END with the summary of stats.iqr() and
\* the failure
Pause3 ==
    /\ pc = "pause3"
    /\ Emit(ClientBenchmarkEvent("END", cbCanceled, failure, Len(iqr(stats))))
    /\ prevFailed' = (failure # NoFailure)
    /\ pc' = "cb_end"
    /\ Ran(FALSE)
    /\ UNCHANGED <<ctx, loops, pass, sampling, pairingFailure, cancelEarly, passes,
                   promise>>
    /\ UNCHANGED store

\* saveData(name, stat): without global.gc nothing happens; otherwise readFile of
\* ./findings.json is started for the record.  The record is identified by the
\* benchmark of the pairing it comes from.
saveData(name, stat) ==
    IF gc
    THEN /\ io' = io \cup {[name |-> name, stat |-> stat, step |-> "read",
                             data |-> NoRecords]}
         /\ saved' = [saved EXCEPT ![name] = Append(@, stat)]
         /\ UNCHANGED <<gc, findings>>
    ELSE UNCHANGED store

\* the callback of readFile runs: the record is pushed under the client's key of
\* the content that was read, and writeFile of the result is started
ReadFileDone ==
    /\ \E op \in io :
          /\ op.step = "read"
          /\ io' = (io \ {op}) \cup
                    {[op EXCEPT !.step = "write",
                                !.data = [findings EXCEPT ![op.name] = Append(@, op.stat)]]}
    /\ UNCHANGED <<ctx, loops, pass, sampling, stream, history, pc, handle, promise,
                   gc, findings, saved>>

\* writeFile completes: the file holds what this invocation wrote
WriteFileDone ==
    /\ \E op \in io :
          /\ op.step = "write"
          /\ findings' = op.data
          /\ io' = io \ {op}
    /\ UNCHANGED <<ctx, loops, pass, sampling, stream, history, pc, handle, promise,
                   gc, saved>>

\* variant: the failure is not cleared at the end of the pairing
CbEndKeepsFailure ==
    /\ pc = "cb_end"
    /\ saveData(ci, bi)
    /\ ci' = ci + 1
    /\ pc' = "client_loop"
    /\ Ran(FALSE)
    /\ UNCHANGED <<ctx, bi, cbCanceled, i, pass, sampling, stream, history, promise>>

\* context.failure = undefined; saveData; runClientBenchmark returns and the client
\* loop goes on
CbEnd ==
    /\ pc = "cb_end"
    /\ failure' = NoFailure
    /\ saveData(ci, bi)
    /\ ci' = ci + 1
    /\ pc' = "client_loop"
    /\ Ran(FALSE)
    /\ UNCHANGED <<config, canceled, eventCommonCanceled, bi, cbCanceled, i, pass,
                   sampling, stream, history, promise>>

(* ------------------------------ specification -------------------------- *)
Next ==
    \/ Cancel
    \/ Settle
    \/ SuiteStart
    \/ BenchLoop
    \/ ClientLoop
    \/ CbStarted
    \/ Transform
    \/ VerifyLoop
    \/ AfterVerifyPass
    \/ Pause1
    \/ WarmupLoop
    \/ AfterWarmupPass
    \/ Pause2
    \/ IterPass
    \/ AfterIterationPass
    \/ IterCheck
    \/ Pause3
    \/ CbEnd
    \/ SetupSettles
    \/ RunSettles
    \/ VerifySettles
    \/ TeardownSettles
    \/ YieldSettles

Spec == Init /\ [][Next]_vars

(* ------------- the run with memory instrumentation (global.gc) --------- *)
\* node --expose-gc, under one configuration that runs every phase
SaveInit ==
    /\ config = [verifyPasses |-> 1, warmups |-> 1, minSamples |-> 1,
                 maxDurationMs |-> 1, targetRelativeMarginOfError |-> 15]
    /\ gc = TRUE
    /\ pc = "suite_start"
    /\ handle = "unreturned"
    /\ canceled = FALSE
    /\ eventCommonCanceled = FALSE
    /\ failure = NoFailure
    /\ bi = 1
    /\ ci = 1
    /\ cbCanceled = FALSE
    /\ i = 0
    /\ passPhase = "none"
    /\ verify = FALSE
    /\ duration = 0
    /\ result = Undefined
    /\ calls = <<>>
    /\ stats = <<>>
    /\ elapsed = 0
    /\ promise = "pending"
    /\ lastEvent = NoEvent
    /\ open = <<>>
    /\ counts = ZeroCounts
    /\ cbStarted = {}
    /\ pairingFailure = NothingFailed
    /\ prevFailed = FALSE
    /\ cancelEarly = FALSE
    /\ passes = NoPasses
    /\ findings = NoRecords
    /\ io = {}
    /\ saved = NoRecords

\* the engine's steps and the completions of saveData's file operations, in any order
SaveNext ==
    \/ Next
    \/ ReadFileDone
    \/ WriteFileDone

SaveSpec == SaveInit /\ [][SaveNext]_vars

(* ------------------------------ properties ----------------------------- *)
IsEvent(e, subject, type) == e.subject = subject /\ e.type = type
IsPhaseEvent(e, phase, type) ==
    IsEvent(e, "CLIENT_BENCHMARK_PHASE", type) /\ e.phase = phase

\* this step calls the reporter: the last event or the history of the stream changes
Emitted == <<lastEvent, open, counts>>' # <<lastEvent, open, counts>>

\* this step calls runSingleBenchmarkPass
PassStarts ==
    /\ pc \in {"verify_loop", "warmup_loop", "iter_pass"}
    /\ pc' \in {"await_setup", "pass_return"}

\* the subjects that enclose the subject of e, outermost first
Enclosing(e) ==
    LET suite == <<"SUITE", 0, 0, "none">>
        benchmark == <<"BENCHMARK", e.benchmark, 0, "none">>
        pairing == <<"CLIENT_BENCHMARK", e.benchmark, e.client, "none">>
    IN  CASE e.subject = "SUITE" -> <<>>
          [] e.subject = "BENCHMARK" -> <<suite>>
          [] e.subject = "CLIENT_BENCHMARK" -> <<suite, benchmark>>
          [] OTHER -> <<suite, benchmark, pairing>>

OpenSubjects == [k \in 1..Len(open) |-> SubjectOf(open[k])]

\* C1: when the run is over (the promise has settled, whichever way), every subject
\* whose START was emitted has received its END, SUITE/END included.
C1_EveryStartedSubjectEnds == pc = "done" => open = <<>>

\* C2: a failing pass never rejects the promise runSuite returned.
C2_PassFailureNeverRejects == promise # "rejected"

\* C3: once cancel() has been called no pass is started any more, and when the run
\* is over every subject that was started has received its END.
C3_CancelStopsPasses ==
    /\ [][canceled => ~PassStarts]_vars
    /\ [](canceled /\ pc = "done" => open = <<>>)

\* C4 as stated: after a cancel() made right after runSuite returned, no
\* CLIENT_BENCHMARK/START was emitted, and SUITE/START and SUITE/END carry
\* canceled = true.
C4_EarlyCancelNoPairing ==
    cancelEarly =>
        /\ cbStarted = {}
        /\ open # <<>> => open[1].canceled
        /\ IsEvent(lastEvent, "SUITE", "END") => lastEvent.canceled

\* C4 as amended: after a cancel() made right after runSuite returned, the only
\* CLIENT_BENCHMARK/START ever emitted is the one of the first client of the first
\* benchmark (emitted before runSuite returned); SUITE/START carried
\* canceled = false; the run ends resolved, with SUITE/END carrying canceled = true.
C4_EarlyCancelOnlyFirstPairing ==
    cancelEarly =>
        /\ cbStarted = {<<1, 1>>}
        /\ open # <<>> => IsEvent(open[1], "SUITE", "START") /\ ~open[1].canceled
        /\ IsEvent(lastEvent, "SUITE", "END") => lastEvent.canceled
        /\ pc = "done" =>
              /\ promise = "resolved_canceled"
              /\ IsEvent(lastEvent, "SUITE", "END")
              /\ open = <<>>

C4_Witness ==
    cancelEarly /\ pc = "done" /\ IsEvent(lastEvent, "SUITE", "END") /\ NumClients >= 2

\* C5: every event emitted after cancel() was called carries canceled = true.
C5_EventsAfterCancelCarryCanceled ==
    [][canceled /\ Emitted => lastEvent'.canceled]_vars

\* C6 as stated: a pairing emits at most one START and one END per phase, and when
\* it ends it has emitted exactly one START and one END for each of the three phases.
C6_OneStartOneEndPerPhase ==
    /\ \A p \in Phases : counts[p].START <= 1 /\ counts[p].END <= 1
    /\ IsEvent(lastEvent, "CLIENT_BENCHMARK", "END") =>
          \A p \in Phases : counts[p].START = 1 /\ counts[p].END = 1

\* C6 as amended: a pairing emits exactly one VERIFY START and one VERIFY END; one
\* WARMUP START and one WARMUP END if it is neither failed nor canceled after
\* VERIFY, and no WARMUP event if VERIFY failed; one ITERATION START per iteration
\* pass started and one ITERATION END per sample collected, so none when ITERATION
\* is skipped and as many pairs as samples when the pairing ends.
C6_PhaseEventCounts ==
    /\ counts["VERIFY"].START <= 1
    /\ counts["WARMUP"].START <= 1
    /\ \A p \in Phases :
          /\ counts[p].END <= counts[p].START
          /\ counts[p].START <= counts[p].END + 1
    /\ pc = "pause2" /\ counts["WARMUP"].START = 0 => canceled \/ failure # NoFailure
    /\ pc = "pause2" /\ counts["WARMUP"].START = 1 => counts["WARMUP"].END = 1
    /\ IsEvent(lastEvent, "CLIENT_BENCHMARK", "END") =>
          /\ counts["VERIFY"].START = 1 /\ counts["VERIFY"].END = 1
          /\ counts["WARMUP"].END = counts["WARMUP"].START
          /\ lastEvent.failure.phase = "VERIFY" => counts["WARMUP"].START = 0
          /\ ~canceled /\ lastEvent.failure = NoFailure => counts["WARMUP"].START = 1
          /\ counts["ITERATION"].START = Len(stats)
          /\ counts["ITERATION"].END = Len(stats)
          /\ lastEvent.failure # NoFailure => counts["ITERATION"].START = 0

C6_Witness ==
    /\ IsEvent(lastEvent, "CLIENT_BENCHMARK", "END")
    /\ counts["ITERATION"].END >= 2
    /\ counts["WARMUP"].END = 1

\* C7: events are properly nested in every prefix of the stream: a START is emitted
\* when exactly the enclosing subjects are open, an END when exactly the enclosing
\* subjects and the subject itself are open.
C7_ProperNesting ==
    [][Emitted =>
          LET e == lastEvent'
          IN  IF e.type = "START"
              THEN OpenSubjects = Enclosing(e)
              ELSE OpenSubjects = Append(Enclosing(e), SubjectOf(e))]_vars

C7_Witness ==
    /\ IsEvent(lastEvent, "SUITE", "END")
    /\ open = <<>>
    /\ Cardinality(cbStarted) = NumBenchmarks * NumClients

\* C8: when CLIENT_BENCHMARK/START has been emitted and until the example is
\* transformed the context's failure is unset, and a failure carried by an event
\* is the one recorded in the pairing of that event.
C8_FailuresArePairingScoped ==
    /\ pc \in {"cb_started", "transform"} => failure = NoFailure
    /\ lastEvent.failure # NoFailure =>
          /\ pairingFailure.kind # "none"
          /\ lastEvent.failure =
                [error |-> pairingFailure.error, phase |-> pairingFailure.phase]

C8_Witness ==
    /\ pc = "cb_started"
    /\ IsEvent(lastEvent, "CLIENT_BENCHMARK", "START")
    /\ prevFailed
    /\ config.verifyPasses >= 1

\* C9: once a pass of a pairing has failed, no pass is started for that pairing.
C9_NoRetry == [][PassStarts => pairingFailure.kind # "pass"]_vars

C9_Witness ==
    /\ pairingFailure.kind = "pass"
    /\ IsEvent(lastEvent, "CLIENT_BENCHMARK", "END")
    /\ config.verifyPasses >= 2
    /\ pairingFailure.phase = "VERIFY"
    /\ i = 1

\* C10: when a pass failed in the VERIFY phase of a pairing, VERIFY END carries
\* that failure with phase VERIFY, no WARMUP or ITERATION event is emitted for the
\* pairing, and CLIENT_BENCHMARK/END carries that same failure.
C10_VerifyFailureSkipsPhases ==
    pairingFailure.kind = "pass" /\ pairingFailure.phase = "VERIFY" =>
        LET caught == [error |-> pairingFailure.error, phase |-> "VERIFY"]
        IN  /\ counts["WARMUP"] = [START |-> 0, END |-> 0]
            /\ counts["ITERATION"] = [START |-> 0, END |-> 0]
            /\ IsPhaseEvent(lastEvent, "VERIFY", "END") => lastEvent.failure = caught
            /\ IsEvent(lastEvent, "CLIENT_BENCHMARK", "END") =>
                  lastEvent.failure = caught /\ counts["VERIFY"].END = 1
            /\ pc \in {"pause1", "pause2", "pause3"} => counts["VERIFY"].END = 1

C10_Witness ==
    /\ pairingFailure.kind = "pass"
    /\ pairingFailure.phase = "VERIFY"
    /\ pairingFailure.error = "run"
    /\ IsEvent(lastEvent, "CLIENT_BENCHMARK", "END")

\* C11: when transforming the example throws, the failure is recorded with phase
\* VERIFY before any pass: no pass of any phase is started in that pairing, and the
\* pairing's VERIFY END and CLIENT_BENCHMARK/END are emitted carrying that failure.
C11_TransformFailureRunsNoPass ==
    pairingFailure.kind = "transform" =>
        LET thrown == [error |-> "transform", phase |-> "VERIFY"]
        IN  /\ passes = NoPasses
            /\ pc \in {"verify_loop", "pause1", "pause2", "pause3", "cb_end"}
                  => failure = thrown
            /\ pc \in {"pause1", "pause2", "pause3", "cb_end"}
                  => counts["VERIFY"]["END"] = 1
            /\ IsPhaseEvent(lastEvent, "VERIFY", "END") => lastEvent.failure = thrown
            /\ pc \in {"cb_end", "client_loop", "bench_loop", "suite_done", "done"}
                  => \/ IsEvent(lastEvent, "CLIENT_BENCHMARK", "END")
                           /\ lastEvent.failure = thrown
                     \/ lastEvent.subject \in {"BENCHMARK", "SUITE"}
            /\ pc \in {"verify_loop", "pause1", "pause2", "pause3", "cb_end",
                        "client_loop", "bench_loop", "suite_done", "done"}

\* a pairing whose transform threw has ended, under a configuration that asks for
\* verify and warmup passes
C11_Witness ==
    /\ pairingFailure.kind = "transform"
    /\ IsEvent(lastEvent, "CLIENT_BENCHMARK", "END")
    /\ lastEvent.failure = [error |-> "transform", phase |-> "VERIFY"]
    /\ config.verifyPasses > 0
    /\ config.warmups > 0
    /\ ~canceled

\* C12: with warmups = w, the WARMUP phase of a pairing starts exactly w passes when
\* nothing fails and nothing is canceled in the pairing up to WARMUP END, never more
\* than w, and no pass at all when the pairing's VERIFY phase failed.
C12_WarmupPassCount ==
    /\ passes["WARMUP"] <= config.warmups
    /\ counts["WARMUP"]["END"] = 1 /\ ~canceled /\ pairingFailure.phase # "WARMUP"
          => passes["WARMUP"] = config.warmups
    /\ pairingFailure.phase = "VERIFY" => passes["WARMUP"] = 0

\* WARMUP has ended after its warmup passes, nothing failed, nothing was canceled
C12_Witness ==
    /\ IsPhaseEvent(lastEvent, "WARMUP", "END")
    /\ config.warmups > 0
    /\ passes["WARMUP"] = config.warmups
    /\ pairingFailure = NothingFailed
    /\ ~canceled

\* the larger of two numbers
Max(a, b) == IF a > b THEN a ELSE b

C14_DurationCapEndsIteration ==
    /\ pc = "iter_pass" /\ Len(stats) >= config.minSamples
          => elapsed <= config.maxDurationMs
    /\ passes["ITERATION"] <= Max(config.minSamples, config.maxDurationMs + 1)

\* the loop has stopped on the duration cap with a margin of error above the target
C14_Witness ==
    /\ pc = "pause3"
    /\ ~canceled /\ failure = NoFailure
    /\ Len(stats) >= config.minSamples
    /\ elapsed > config.maxDurationMs
    /\ ~MarginOfErrorWithin(stats, config.targetRelativeMarginOfError)

EndedClean ==
    /\ pc = "cb_end"
    /\ IsEvent(lastEvent, "CLIENT_BENCHMARK", "END")
    /\ passes["ITERATION"] > 0
    /\ pairingFailure = NothingFailed
    /\ ~canceled

PairingsBefore(b, c) ==
    {p \in Benchmarks \X Clients : p[1] < b \/ (p[1] = b /\ p[2] < c)}

\* this step emits CLIENT_BENCHMARK/START
StartsPairing == pc = "client_loop" /\ pc' = "cb_started"

\* C17: as long as the run is not canceled, CLIENT_BENCHMARK/START is emitted once
\* per (benchmark, client) in benchmark-major order: when a pairing starts, exactly
\* the pairings before it have started, they have all ended, and the only open
\* subjects are the suite and the pairing's benchmark, whose START came after the
\* pairings of the earlier benchmarks; and when the loops are over without
\* cancellation, every pairing has started.
C17_PairingsInBenchmarkMajorOrder ==
    /\ [][StartsPairing /\ ~canceled
            => /\ cbStarted = PairingsBefore(bi, ci)
               /\ OpenSubjects = <<<<"SUITE", 0, 0, "none">>,
                                   <<"BENCHMARK", bi, 0, "none">>>>
               /\ IF ci = 1
                  THEN IsEvent(lastEvent, "BENCHMARK", "START")
                  ELSE /\ IsEvent(lastEvent, "CLIENT_BENCHMARK", "END")
                       /\ lastEvent.benchmark = bi /\ lastEvent.client = ci - 1
               /\ IsEvent(lastEvent', "CLIENT_BENCHMARK", "START")
               /\ lastEvent'.benchmark = bi /\ lastEvent'.client = ci]_vars
    /\ [][IsEvent(lastEvent', "BENCHMARK", "START") /\ lastEvent' # lastEvent
               /\ ~canceled
            => cbStarted = PairingsBefore(lastEvent'.benchmark, 1)]_vars
    /\ [](pc = "suite_done" /\ ~canceled => cbStarted = Benchmarks \X Clients)

\* the run has emitted SUITE/END without cancellation after all pairings
C17_Witness ==
    /\ pc = "suite_done"
    /\ ~canceled
    /\ cbStarted = Benchmarks \X Clients
    /\ IsEvent(lastEvent, "SUITE", "END")

\* C18: the promise runSuite returned settles only after SUITE/END was emitted, and
\* settles with the final canceled state: truthy exactly when cancel() was called
\* before the run completed.
C18_SettlesAfterSuiteEnd ==
    promise # "pending" => /\ IsEvent(lastEvent, "SUITE", "END")
                           /\ promise = "resolved_canceled" <=> canceled

\* the lifecycle steps a complete pass of the phase invokes, in order
LifecycleOf(phase) ==
    IF phase = "VERIFY" THEN <<"setup", "run", "verify", "teardown">>
    ELSE <<"setup", "run", "teardown">>

\* C20: a pass invokes the lifecycle steps of its benchmark in the order setup, run,
\* verify, teardown, with verify exactly in passes of the VERIFY phase; a pass that
\* returns a result has invoked them all; when a step fails no later step is invoked
\* (teardown included), the pass returns undefined and context.failure is that error
\* tagged with the phase of the pass.
C20_PassLifecycle ==
    passPhase # "none" =>
        /\ Len(calls) <= Len(LifecycleOf(passPhase))
        /\ calls = SubSeq(LifecycleOf(passPhase), 1, Len(calls))
        /\ pc = "pass_return" /\ result.ok => calls = LifecycleOf(passPhase)
        /\ pc = "pass_return" /\ ~result.ok
              => /\ result = Undefined
                 /\ failure.phase = passPhase
                 /\ IF calls = <<>> THEN failure.error = "construct"
                    ELSE failure.error = calls[Len(calls)]

\* a verify pass whose verify() failed has returned without calling teardown()
C20_Witness ==
    /\ pc = "pass_return"
    /\ passPhase = "VERIFY"
    /\ calls = <<"setup", "run", "verify">>
    /\ failure = [error |-> "verify", phase |-> "VERIFY"]
    /\ result = Undefined

\* C19: with memory instrumentation, once every saveData invocation made so far has
\* completed its read and its write, findings.json holds under each client's key one
\* record per invocation made for that client, each of those records among them.
C19_EveryRecordKept ==
    io = {} => \A c \in Clients :
                  /\ Len(findings[c]) = Len(saved[c])
                  /\ \A k \in 1..Len(saved[c]) :
                        \E j \in 1..Len(findings[c]) : findings[c][j] = saved[c][k]

\* C21: the live sample set of a pairing only grows by appending, from the new
\* Stats() of the pairing on; every ITERATION END carries as iterations the number of
\* ITERATION passes of the pairing that succeeded so far, which is the number of
\* ITERATION END events so far (1, 2, 3, ...) and the size of the live set; and the
\* loop goes on or stops as isFinalIteration says of that untrimmed set.
C21_LiveSamplesAppendOnly ==
    /\ [][pc # "pause2"
            => \/ stats' = stats
               \/ /\ Len(stats') = Len(stats) + 1
                  /\ SubSeq(stats', 1, Len(stats)) = stats
                  /\ IsPhaseEvent(lastEvent', "ITERATION", "END")
                  /\ lastEvent'.iterations = counts["ITERATION"]["END"] + 1]_vars
    /\ [](IsPhaseEvent(lastEvent, "ITERATION", "END")
            => /\ lastEvent.iterations = counts["ITERATION"]["END"]
               /\ lastEvent.iterations = Len(stats)
               /\ pc = "iter_check" => lastEvent.iterations = passes["ITERATION"])
    /\ [][pc = "iter_check" /\ pc' # pc /\ ~IterationBreaks
            => (pc' = "pause3" <=> isFinalIteration(config, elapsed, stats))]_vars

\* the second ITERATION END of a pairing has reported two iterations
C21_Witness ==
    /\ pc = "iter_check"
    /\ IsPhaseEvent(lastEvent, "ITERATION", "END")
    /\ lastEvent.iterations = 2
    /\ Len(stats) = 2
    /\ passes["ITERATION"] = 2

====
